---- MODULE Spec2Model ----
(***************************************************************************)
(* Model of you_dlp.py: the format classifier/ranker (get_video_formats),  *)
(* the filename sanitizer (sanitize_filename) and the download             *)
(* orchestrator (download_video).                                          *)
(*                                                                         *)
(* Conventions.                                                            *)
(*  - A format descriptor is a Python dict.  A key that is absent from the *)
(*    dict is the value Missing; dict.get(k, d) is Get(v, d).              *)
(*  - Python None for an id is the string None.                            *)
(*  - The label ('resolution'), 'ext' and 'filesize' of a menu entry are   *)
(*    display data that no step of the algorithm reads back; the model     *)
(*    leaves them out of the entry.                                        *)
(***************************************************************************)
EXTENDS Integers, Sequences, FiniteSets, TLC

VARIABLES
    result_formats,   \* get_video_formats: result['formats'], the raw descriptors
    show_all,         \* get_video_formats: the show_all argument
    formats,          \* get_video_formats: the returned menu
    listed,           \* get_video_formats has returned
    title,            \* sanitize_filename: the string under test (a Seq of characters)
    san_out,          \* sanitize_filename: results of successive applications
    pc,               \* download_video: position in the function
    dir_state,        \* download_video: outcome of the output directory checks
    format_info,      \* download_video: the chosen menu entry
    merge_option,     \* download_video: the merge_option argument
    safe_title,       \* download_video: sanitized title
    events,           \* download_video: what the client has been shown, in order
    calls,            \* download_video: calls made to yt_dlp, in order
    stream,           \* download_video: the download call in flight
    files,            \* download_video: output templates written by finished calls
    raised,           \* download_video: the exception a download call raised
    ret               \* download_video: the return value

vars == <<result_formats, show_all, formats, listed, title, san_out, pc,
          dir_state, format_info, merge_option, safe_title, events, calls,
          stream, files, raised, ret>>

fmtVars == <<result_formats, show_all, formats, listed>>
sanVars == <<title, san_out>>
dlVars  == <<pc, dir_state, format_info, merge_option, safe_title, events, calls,
             stream, files, raised, ret>>

----------------------------------------------------------------------------
(* Bounds                                                                  *)

MaxFormats == 3      \* longest descriptor list drawn
MaxPieces == 3       \* title = concatenation of at most this many pieces
MaxPasses == 2       \* successive applications of sanitize_filename
MaxProgress == 1     \* 'downloading' hook calls per download call

----------------------------------------------------------------------------
(* Python values                                                           *)

Missing == -1            \* key absent from a dict
None == "None"           \* Python None where an id is expected
Unknown == -2            \* the default 'unknown' of f.get('abr', 'unknown')

Get(v, d) == IF v = Missing THEN d ELSE v

\* truthiness of an optional number: absent and 0 are falsy
Truthy(v) == v # Missing /\ v # 0

\* x or 0
OrZero(v) == IF Truthy(v) THEN v ELSE 0

\* no menu entry chosen yet
NoFormat ==
    [format_id |-> None, has_video |-> FALSE, has_audio |-> FALSE,
     height |-> 0, merge_needed |-> FALSE, best_audio_id |-> None,
     priority |-> 0, fps |-> 0]

\* no exception raised
NoError == [type |-> "none", msg |-> <<>>]

\* no yt_dlp download call in flight
NoStream ==
    [label |-> "none", format |-> <<>>, outtmpl |-> <<>>, pending |-> 0,
     n |-> 0]

----------------------------------------------------------------------------
(* get_video_formats                                                       *)

\* format ids are unique within one descriptor list: the id of the i-th
\* descriptor that has one
FormatIds == <<"18", "137", "140", "22", "251">>

Desc(id, vc, ac, h, f, w, t, a) ==
    [has_id |-> id, vcodec |-> vc, acodec |-> ac, height |-> h, fps |-> f,
     width |-> w, tbr |-> t, abr |-> a]

VideoDescs ==
    { Desc(TRUE, "h264", ac, h, f, Missing, Missing, Missing) :
        ac \in {"none", "aac"}, h \in {360, 1080}, f \in {Missing, 30} }
    \cup
    { Desc(TRUE, "h264", "aac", Missing, Missing, Missing, Missing, Missing),
      Desc(TRUE, "h264", "aac", 0, Missing, Missing, Missing, 128),
      Desc(TRUE, "h264", "none", Missing, Missing, Missing, Missing, Missing),
      Desc(TRUE, "h264", "aac", 360, Missing, Missing, 500, Missing),
      Desc(TRUE, "h264", "none", 1080, Missing, 1920, Missing, Missing) }

AudioDescs ==
    { Desc(TRUE, "none", "aac", Missing, Missing, Missing, Missing, a) :
        a \in {Missing, 128, 160} }
    \cup
    { Desc(FALSE, "none", "aac", Missing, Missing, Missing, Missing, 160) }

OtherDescs ==
    { Desc(TRUE, "none", "none", Missing, Missing, Missing, Missing, Missing) }

DescSet == VideoDescs \cup AudioDescs \cup OtherDescs

\* the dict at position i of result['formats'], with its format_id
WithId(d, i) ==
    [format_id |-> IF d.has_id THEN FormatIds[i] ELSE None,
     vcodec |-> d.vcodec, acodec |-> d.acodec, height |-> d.height,
     fps |-> d.fps, width |-> d.width, tbr |-> d.tbr, abr |-> d.abr]

\* result['formats'] built from the descriptors s
RawList(s, n) == [i \in 1..n |-> WithId(s[i], i)]

\* audio_formats = [f for f in result['formats']
\*                  if f.get('acodec') != 'none' and f.get('vcodec') == 'none']
IsAudioOnly(f) == f.acodec # "none" /\ f.vcodec = "none"

audio_formats(fs) == SelectSeq(fs, IsAudioOnly)

\* variant: the last maximal element is taken instead of the first
best_audio_last(fs) ==
    LET af == audio_formats(fs)
        k(i) == Get(af[i].abr, 0)
    IN  IF af = <<>> THEN <<>>
        ELSE << af[CHOOSE i \in 1..Len(af) :
                     /\ \A j \in 1..Len(af) : k(j) <= k(i)
                     /\ \A j \in (i+1)..Len(af) : k(j) < k(i)] >>

\* max(audio_formats, key=lambda x: x.get('abr', 0)) if audio_formats else None
\* max returns the first maximal element; the result is a sequence of
\* zero (None) or one element
best_audio(fs) ==
    LET af == audio_formats(fs)
        k(i) == Get(af[i].abr, 0)
    IN  IF af = <<>> THEN <<>>
        ELSE << af[CHOOSE i \in 1..Len(af) :
                     /\ \A j \in 1..Len(af) : k(j) <= k(i)
                     /\ \A j \in 1..(i-1) : k(j) < k(i)] >>

\* tuple comparison of Python, on triples of integers
TupleLess(a, b) ==
    \/ a[1] < b[1]
    \/ a[1] = b[1] /\ a[2] < b[2]
    \/ a[1] = b[1] /\ a[2] = b[2] /\ a[3] < b[3]

\* key=lambda x: (x.get('height', 0), x.get('width', 0), x.get('tbr', 0))
QualityKey(f) == <<Get(f.height, 0), Get(f.width, 0), Get(f.tbr, 0)>>

\* sorted(..., reverse=True) is stable: x goes after every element whose
\* key is not smaller than its own
RECURSIVE InsertDesc(_, _)
InsertDesc(x, s) ==
    IF s = <<>> THEN <<x>>
    ELSE IF TupleLess(QualityKey(s[1]), QualityKey(x))
         THEN <<x>> \o s
         ELSE <<s[1]>> \o InsertDesc(x, Tail(s))

\* variant: the quality sort is left out
sorted_formats_unsorted(fs) == fs

RECURSIVE sorted_formats(_)
sorted_formats(fs) ==
    IF fs = <<>> THEN <<>>
    ELSE InsertDesc(fs[Len(fs)], sorted_formats(SubSeq(fs, 1, Len(fs) - 1)))

\* the branch of the loop body taken for descriptor f:
\* 0 = continue (skipped), else the priority assigned
Priority(f, all) ==
    IF f.format_id = None THEN 0
    ELSE IF f.vcodec = "none" /\ ~all THEN 0
    ELSE IF f.vcodec # "none" /\ Truthy(f.height)
         THEN (IF f.acodec # "none" THEN 1 ELSE 2)
    ELSE IF f.acodec # "none" /\ all THEN 3
    ELSE 0

\* format_key: f"complete_{height}_{fps or 0}", f"video_merge_{height}_{fps or 0}",
\* f"audio_only_{abr}" with abr = f.get('abr', 'unknown')
FormatKey(f, all) ==
    CASE Priority(f, all) = 1 -> <<"complete", f.height, OrZero(f.fps)>>
      [] Priority(f, all) = 2 -> <<"video_merge", f.height, OrZero(f.fps)>>
      [] Priority(f, all) = 3 -> <<"audio_only", Get(f.abr, Unknown), 0>>
      [] OTHER -> <<"skip", 0, 0>>

\* variant: best_audio_id is filled in without testing merge_needed
EntryAlwaysPaired(f, all, ba) ==
    [format_id |-> f.format_id,
     has_video |-> f.vcodec # "none",
     has_audio |-> f.acodec # "none",
     height |-> OrZero(f.height),
     merge_needed |-> Priority(f, all) = 2,
     best_audio_id |-> IF ba # <<>> THEN ba[1].format_id ELSE None,
     priority |-> Priority(f, all),
     fps |-> OrZero(f.fps)]

\* the dict appended to formats
Entry(f, all, ba) ==
    LET merge_needed == Priority(f, all) = 2
    IN  [format_id |-> f.format_id,
         has_video |-> f.vcodec # "none",
         has_audio |-> f.acodec # "none",
         height |-> OrZero(f.height),
         merge_needed |-> merge_needed,
         best_audio_id |-> IF ba # <<>> /\ merge_needed
                           THEN ba[1].format_id ELSE None,
         priority |-> Priority(f, all),
         fps |-> OrZero(f.fps)]

\* for f in sorted_formats: ... if format_key not in seen_formats: append
RECURSIVE BuildMenu(_, _, _, _, _)
BuildMenu(sf, all, ba, seen, acc) ==
    IF sf = <<>> THEN acc
    ELSE LET f == sf[1]
             key == FormatKey(f, all)
         IN  IF Priority(f, all) = 0 \/ key \in seen
             THEN BuildMenu(Tail(sf), all, ba, seen, acc)
             ELSE BuildMenu(Tail(sf), all, ba, seen \cup {key},
                            Append(acc, Entry(f, all, ba)))

\* variant: the sort key leaves out the priority
MenuKeyNoPriority(e) == <<0, 0 - e.height, 0 - e.fps>>

\* key=lambda x: (x['priority'], -x['height'], -x['fps'])
MenuKey(e) == <<e.priority, 0 - e.height, 0 - e.fps>>

\* list.sort is stable and ascending
RECURSIVE InsertAsc(_, _)
InsertAsc(x, s) ==
    IF s = <<>> THEN <<x>>
    ELSE IF TupleLess(MenuKey(x), MenuKey(s[1]))
         THEN <<x>> \o s
         ELSE <<s[1]>> \o InsertAsc(x, Tail(s))

\* variant: the final sort is left out
SortMenuUnsorted(m) == m

RECURSIVE SortMenu(_)
SortMenu(m) ==
    IF m = <<>> THEN <<>>
    ELSE InsertAsc(m[Len(m)], SortMenu(SubSeq(m, 1, Len(m) - 1)))

get_video_formats(fs, all) ==
    SortMenu(BuildMenu(sorted_formats(fs), all, best_audio(fs), {}, <<>>))

----------------------------------------------------------------------------
(* sanitize_filename.  A string is a sequence of Unicode code points.      *)

TruncLen == 200

\* [<>:"/\\|?*\x00-\x1f]
IllegalChars == {60, 62, 58, 34, 47, 92, 124, 63, 42} \cup (0..31)

\* \s on a str pattern: Unicode whitespace
Whitespace ==
    (9..13) \cup (28..32) \cup {133, 160, 5760} \cup (8192..8202)
    \cup {8232, 8233, 8239, 8287, 12288}

IsLegal(c) == c \notin IllegalChars

\* re.sub(r'[<>:"/\\|?*\x00-\x1f]', '', title)
RemoveIllegal(s) == SelectSeq(s, IsLegal)

\* re.sub(r'\s+', ' ', s): every maximal run of whitespace becomes one space
CollapseSpaces(s) ==
    LET tagged == [i \in 1..Len(s) |->
                     IF s[i] \in Whitespace
                     THEN (IF i > 1 /\ s[i-1] \in Whitespace THEN -1 ELSE 32)
                     ELSE s[i]]
        Kept(c) == c # -1
    IN  SelectSeq(tagged, Kept)

\* str.strip()
Strip(s) ==
    LET idx == { i \in 1..Len(s) : s[i] \notin Whitespace }
    IN  IF idx = {} THEN <<>>
        ELSE SubSeq(s, CHOOSE i \in idx : \A j \in idx : i <= j,
                       CHOOSE i \in idx : \A j \in idx : j <= i)

\* sanitized[:200] if len(sanitized) > 200 else sanitized
Truncate(s) == IF Len(s) > TruncLen THEN SubSeq(s, 1, TruncLen) ELSE s

\* "video"
VideoName == <<118, 105, 100, 101, 111>>

sanitize_filename(t) ==
    IF t = <<>> THEN VideoName
    ELSE LET sanitized == Truncate(Strip(CollapseSpaces(RemoveIllegal(t))))
         IN  IF sanitized = <<>> THEN VideoName ELSE sanitized

\* titles under test: concatenations of short pieces and one long filler
Filler == [i \in 1..(TruncLen - 1) |-> 97]

Pieces == { <<97>>, <<32>>, <<60>>, <<9>>, <<160>>, Filler }

RECURSIVE Concats(_)
Concats(n) ==
    IF n = 0 THEN { <<>> }
    ELSE LET prev == Concats(n - 1)
         IN  prev \cup { s \o p : s \in prev, p \in Pieces }

Titles == Concats(MaxPieces)

----------------------------------------------------------------------------
(* State machines of the two pure functions                                *)

FmtIdle ==
    /\ result_formats = <<>>
    /\ show_all = FALSE
    /\ formats = <<>>
    /\ listed = FALSE

SanIdle ==
    /\ title = <<>>
    /\ san_out = <<>>

DlIdle ==
    /\ pc = "idle"
    /\ dir_state = "unchecked"
    /\ format_info = NoFormat
    /\ merge_option = None
    /\ safe_title = <<>>
    /\ events = <<>>
    /\ calls = <<>>
    /\ stream = NoStream
    /\ files = {}
    /\ raised = NoError
    /\ ret = "None"

\* formats = get_video_formats(video_url, show_all_formats)
GetVideoFormats ==
    /\ ~listed
    /\ formats' = get_video_formats(result_formats, show_all)
    /\ listed' = TRUE
    /\ UNCHANGED <<result_formats, show_all, sanVars, dlVars>>

InitFormats ==
    /\ \E n \in 0..MaxFormats : \E s \in [1..n -> DescSet] :
          result_formats = RawList(s, n)
    /\ show_all \in BOOLEAN
    /\ formats = <<>>
    /\ listed = FALSE
    /\ SanIdle
    /\ DlIdle

NextFormats == GetVideoFormats

SpecFormats == InitFormats /\ [][NextFormats]_vars

\* one more application of sanitize_filename, to the title first and then
\* to its own result
Sanitize ==
    /\ Len(san_out) < MaxPasses
    /\ san_out' = Append(san_out,
                         sanitize_filename(IF san_out = <<>> THEN title
                                           ELSE san_out[Len(san_out)]))
    /\ UNCHANGED <<title, fmtVars, dlVars>>

InitSanitize ==
    /\ title \in Titles
    /\ san_out = <<>>
    /\ FmtIdle
    /\ DlIdle

NextSanitize == Sanitize

SpecSanitize == InitSanitize /\ [][NextSanitize]_vars

----------------------------------------------------------------------------
(* Claims about get_video_formats (checked under SpecFormats)              *)

\* Scenario A of the specification
ScenarioA ==
    << [format_id |-> "18", vcodec |-> "h264", acodec |-> "aac",
        height |-> 360, fps |-> Missing, width |-> Missing,
        tbr |-> Missing, abr |-> Missing],
       [format_id |-> "137", vcodec |-> "h264", acodec |-> "none",
        height |-> 1080, fps |-> Missing, width |-> Missing,
        tbr |-> Missing, abr |-> Missing],
       [format_id |-> "140", vcodec |-> "none", acodec |-> "aac",
        height |-> Missing, fps |-> Missing, width |-> Missing,
        tbr |-> Missing, abr |-> 128] >>

\* C1: the returned menu is sorted by (priority ascending, height
\* descending, fps descending): each entry's (priority, -height, -fps) is
\* lexicographically <= that of the entry after it.
C1_MenuSorted ==
    listed =>
        \A i \in 1..(Len(formats) - 1) :
            LET a == formats[i]
                b == formats[i + 1]
            IN  \/ a.priority < b.priority
                \/ a.priority = b.priority /\ a.height > b.height
                \/ a.priority = b.priority /\ a.height = b.height
                                           /\ a.fps >= b.fps

\* a menu with all three rank classes, whose entries do not come out of
\* the quality-sorted loop in rank order
C1_Witness ==
    /\ listed
    /\ Len(formats) = 3
    /\ formats[1].priority = 1 /\ formats[2].priority = 2
    /\ formats[3].priority = 3
    /\ formats[1].height < formats[2].height

\* C2 (as claimed): a descriptor with a format id and both codecs present
\* is never emitted with priority 2 or 3; when emitted it has priority 1.
C2_CompleteDominance ==
    listed =>
        \A i \in DOMAIN formats : \A j \in DOMAIN result_formats :
            LET e == formats[i]
                d == result_formats[j]
            IN  (/\ d.format_id # None
                 /\ d.format_id = e.format_id
                 /\ d.vcodec # "none"
                 /\ d.acodec # "none") => e.priority = 1

\* the projection of a menu entry on the fields Scenario A names
ScenarioView(e) ==
    [format_id |-> e.format_id, priority |-> e.priority,
     merge_needed |-> e.merge_needed, best_audio_id |-> e.best_audio_id]

\* C3 (as claimed): Scenario A yields [137 (class 2, merge, paired 140),
\* 18 (class 1, no merge)] in that order.
C3_ScenarioA_AsClaimed ==
    (listed /\ result_formats = ScenarioA /\ ~show_all) =>
        /\ Len(formats) = 2
        /\ ScenarioView(formats[1]) =
             [format_id |-> "137", priority |-> 2, merge_needed |-> TRUE,
              best_audio_id |-> "140"]
        /\ ScenarioView(formats[2]) =
             [format_id |-> "18", priority |-> 1, merge_needed |-> FALSE,
              best_audio_id |-> None]

\* C3 (amended): Scenario A yields the same two entries in rank order:
\* first 18 (class 1, no merge, no paired audio), then 137 (class 2,
\* merge needed, paired audio 140); 140 itself does not appear.
C3_ScenarioA ==
    (listed /\ result_formats = ScenarioA /\ ~show_all) =>
        /\ Len(formats) = 2
        /\ ScenarioView(formats[1]) =
             [format_id |-> "18", priority |-> 1, merge_needed |-> FALSE,
              best_audio_id |-> None]
        /\ ScenarioView(formats[2]) =
             [format_id |-> "137", priority |-> 2, merge_needed |-> TRUE,
              best_audio_id |-> "140"]
        /\ \A i \in DOMAIN formats : formats[i].format_id # "140"

C3_Witness == listed /\ result_formats = ScenarioA /\ ~show_all

\* C4: when the input holds an audio-only descriptor, every merge-needed
\* entry carries the format id of the audio-only descriptor of maximal abr
\* (missing abr counted as 0), the first in input order on a tie.
C4_PairedWithBestAudio ==
    listed =>
        \A b \in DOMAIN result_formats :
            LET Audio(j) == /\ result_formats[j].acodec # "none"
                            /\ result_formats[j].vcodec = "none"
                Abr(j) == IF result_formats[j].abr = Missing THEN 0
                          ELSE result_formats[j].abr
            IN  (/\ Audio(b)
                 /\ \A j \in DOMAIN result_formats : Audio(j) => Abr(j) <= Abr(b)
                 /\ \A j \in 1..(b - 1) : Audio(j) => Abr(j) < Abr(b))
                => \A i \in DOMAIN formats :
                     formats[i].merge_needed =>
                        formats[i].best_audio_id = result_formats[b].format_id

\* a merge-needed entry, with two audio-only descriptors of different ids
\* tied at the maximal abr
C4_Witness ==
    /\ listed
    /\ \E i \in DOMAIN formats : formats[i].merge_needed
    /\ \E a, b \in DOMAIN result_formats :
         /\ a < b
         /\ IsAudioOnly(result_formats[a]) /\ IsAudioOnly(result_formats[b])
         /\ result_formats[a].abr = 160 /\ result_formats[b].abr = 160
         /\ result_formats[a].format_id # result_formats[b].format_id

\* C5 (as claimed): best_audio_id is set iff merge_needed.
C5_PairedIffMerge ==
    listed =>
        \A i \in DOMAIN formats :
            (formats[i].best_audio_id # None) <=> formats[i].merge_needed

\* C5 (amended): best_audio_id is set only if merge_needed.  An entry that
\* needs no merge has none; a merge-needed entry has none when the input
\* holds no audio-only descriptor, and has one when the input holds
\* audio-only descriptors that all carry a format id.
C5_PairedOnlyIfMerge ==
    listed =>
        LET audio == { j \in DOMAIN result_formats :
                         /\ result_formats[j].acodec # "none"
                         /\ result_formats[j].vcodec = "none" }
        IN  \A i \in DOMAIN formats :
              /\ ~formats[i].merge_needed => formats[i].best_audio_id = None
              /\ (formats[i].merge_needed /\ audio = {})
                    => formats[i].best_audio_id = None
              /\ (/\ formats[i].merge_needed
                  /\ audio # {}
                  /\ \A j \in audio : result_formats[j].format_id # None)
                    => formats[i].best_audio_id # None

\* a menu with a merge-needed entry and a complete entry, from an input
\* that holds an audio-only descriptor
C5_Witness ==
    /\ listed
    /\ \E i \in DOMAIN formats :
         formats[i].merge_needed /\ formats[i].best_audio_id # None
    /\ \E i \in DOMAIN formats : formats[i].priority = 1

\* a merge-needed entry from an input without any audio-only descriptor
C5_NoAudioReached ==
    /\ listed
    /\ \E i \in DOMAIN formats : formats[i].merge_needed
    /\ \A j \in DOMAIN result_formats : ~IsAudioOnly(result_formats[j])

\* C6: within a rank class the menu holds one entry per identity key
\* ((height, fps) in classes 1 and 2, abr in class 3), and the entry kept
\* is the first of its class and key in the stable descending order by
\* (height, width, tbr): no descriptor of the same class and key has a
\* greater (height, width, tbr), nor an equal one at an earlier position.
C6_DedupKeepsBest ==
    listed =>
        LET Src(e) == CHOOSE j \in DOMAIN result_formats :
                         result_formats[j].format_id = e.format_id
            Q(j) == << IF result_formats[j].height = Missing THEN 0
                       ELSE result_formats[j].height,
                       IF result_formats[j].width = Missing THEN 0
                       ELSE result_formats[j].width,
                       IF result_formats[j].tbr = Missing THEN 0
                       ELSE result_formats[j].tbr >>
            Less(x, y) == \/ x[1] < y[1]
                          \/ x[1] = y[1] /\ x[2] < y[2]
                          \/ x[1] = y[1] /\ x[2] = y[2] /\ x[3] < y[3]
        IN  /\ \A i, k \in DOMAIN formats :
                 (i # k /\ formats[i].priority = formats[k].priority) =>
                    IF formats[i].priority = 3
                    THEN result_formats[Src(formats[i])].abr
                           # result_formats[Src(formats[k])].abr
                    ELSE <<formats[i].height, formats[i].fps>>
                           # <<formats[k].height, formats[k].fps>>
            /\ \A i \in DOMAIN formats : \A j \in DOMAIN result_formats :
                 LET kept == Src(formats[i])
                 IN  (/\ Priority(result_formats[j], show_all)
                            = formats[i].priority
                      /\ FormatKey(result_formats[j], show_all)
                            = FormatKey(result_formats[kept], show_all))
                     => /\ ~Less(Q(kept), Q(j))
                        /\ Q(j) = Q(kept) => kept <= j

\* an entry kept in front of a descriptor of the same class and key that
\* came earlier in the input with a lower (height, width, tbr)
C6_Witness ==
    /\ listed
    /\ \E i \in DOMAIN formats : \E j, k \in DOMAIN result_formats :
         /\ j < k
         /\ result_formats[k].format_id = formats[i].format_id
         /\ result_formats[j].format_id # None
         /\ Priority(result_formats[j], show_all) = formats[i].priority
         /\ FormatKey(result_formats[j], show_all)
               = FormatKey(result_formats[k], show_all)
         /\ TupleLess(QualityKey(result_formats[j]),
                      QualityKey(result_formats[k]))

----------------------------------------------------------------------------
(* Claims about sanitize_filename (checked under SpecSanitize)             *)

\* C7 (as claimed): sanitize_filename(sanitize_filename(s)) equals
\* sanitize_filename(s) for every title s.
C7_Idempotent ==
    Len(san_out) >= 2 => san_out[2] = san_out[1]

\* the title the second application changes: it is cut at TruncLen right
\* after a space
C7_TrailingSpaceReached ==
    /\ Len(san_out) >= 1
    /\ Len(san_out[1]) = TruncLen
    /\ san_out[1][TruncLen] = 32

----------------------------------------------------------------------------
(* download_video                                                          *)
(*                                                                         *)
(* What the client sees is the sequence events: st.error is a Failure,     *)
(* the closing progress_container.markdown of a successful run is a        *)
(* Success, the hook's two branches are Downloading and StreamComplete.    *)
(* A yt_dlp download call is an external call: while it is in flight it    *)
(* invokes progress_hook with 'downloading' any number of times and with   *)
(* 'finished' once per stream it fetches, then returns, or it raises at    *)
(* any point.                                                              *)

\* the menu entries the client can choose from: those of Scenario A with
\* all formats shown, and of the same video without its audio-only format
FormatChoices ==
    LET withAudio == get_video_formats(ScenarioA, TRUE)
        noAudio == get_video_formats(SubSeq(ScenarioA, 1, 2), FALSE)
    IN  { withAudio[i] : i \in DOMAIN withAudio }
        \cup { noAudio[i] : i \in DOMAIN noAudio }

\* merge_preference of main: "auto", "merge" or "separate"
MergeOptions == {"auto", "merge", "separate"}

\* results of get_video_info: <<>> is None, <<t>> a dict with title t
InfoResults == { <<>>, << <<97>> >>, << <<60>> >>, << <<97, 32, 60, 98>> >> }

\* str.lower(), on the ASCII letters
Lower(s) == [i \in DOMAIN s |-> IF s[i] \in 65..90 THEN s[i] + 32 ELSE s[i]]

\* sub in s
Contains(s, sub) ==
    \E i \in 1..(Len(s) - Len(sub) + 1) : SubSeq(s, i, i + Len(sub) - 1) = sub

\* "requested format not available"
MsgFormat ==
    <<114, 101, 113, 117, 101, 115, 116, 101, 100, 32, 102, 111, 114, 109,
      97, 116, 32, 110, 111, 116, 32, 97, 118, 97, 105, 108, 97, 98, 108,
      101>>

\* "video unavailable"
MsgUnavailable ==
    <<118, 105, 100, 101, 111, 32, 117, 110, 97, 118, 97, 105, 108, 97, 98,
      108, 101>>

\* "ffmpeg"
MsgFfmpeg == <<102, 102, 109, 112, 101, 103>>

\* messages of the errors a download call raises:
\* "Requested format not available", "Video unavailable",
\* "ffmpeg exited with code 1", "Connection timed out",
\* "Video unavailable; requested format not available",
\* "FFmpeg: video unavailable"
ErrorMessages ==
    { <<82, 101, 113, 117, 101, 115, 116, 101, 100, 32, 102, 111, 114, 109,
        97, 116, 32, 110, 111, 116, 32, 97, 118, 97, 105, 108, 97, 98, 108,
        101>>,
      <<86, 105, 100, 101, 111, 32, 117, 110, 97, 118, 97, 105, 108, 97, 98,
        108, 101>>,
      <<102, 102, 109, 112, 101, 103, 32, 101, 120, 105, 116, 101, 100, 32,
        119, 105, 116, 104, 32, 99, 111, 100, 101, 32, 49>>,
      <<67, 111, 110, 110, 101, 99, 116, 105, 111, 110, 32, 116, 105, 109,
        101, 100, 32, 111, 117, 116>>,
      <<86, 105, 100, 101, 111, 32, 117, 110, 97, 118, 97, 105, 108, 97, 98,
        108, 101, 59, 32, 114, 101, 113, 117, 101, 115, 116, 101, 100, 32,
        102, 111, 114, 109, 97, 116, 32, 110, 111, 116, 32, 97, 118, 97,
        105, 108, 97, 98, 108, 101>>,
      <<70, 70, 109, 112, 101, 103, 58, 32, 118, 105, 100, 101, 111, 32, 117,
        110, 97, 118, 97, 105, 108, 97, 98, 108, 101>> }

\* the exceptions a download call raises
Errors == [type : {"DownloadError", "Exception"}, msg : ErrorMessages]

\* variant: the ffmpeg test comes before the video-unavailable test
ErrorKindFfmpegFirst(e) ==
    IF e.type = "DownloadError"
    THEN IF Contains(Lower(e.msg), MsgFormat) THEN "FormatNoLongerAvailable"
         ELSE IF Contains(Lower(e.msg), MsgFfmpeg) THEN "MergeToolError"
         ELSE IF Contains(Lower(e.msg), MsgUnavailable) THEN "VideoUnavailable"
         ELSE "NetworkOrExtractionError"
    ELSE "DownloadFailed"

\* the branch of the except clauses taken for error e
ErrorKind(e) ==
    IF e.type = "DownloadError"
    THEN IF Contains(Lower(e.msg), MsgFormat) THEN "FormatNoLongerAvailable"
         ELSE IF Contains(Lower(e.msg), MsgUnavailable) THEN "VideoUnavailable"
         ELSE IF Contains(Lower(e.msg), MsgFfmpeg) THEN "MergeToolError"
         ELSE "NetworkOrExtractionError"
    ELSE "DownloadFailed"

Event(type, kind, msg, during) ==
    [type |-> type, kind |-> kind, msg |-> msg, during |-> during]

\* st.error(...); return False
Fail(kind, msg) ==
    /\ events' = Append(events, Event("Failure", kind, msg, stream.label))
    /\ ret' = "False"
    /\ pc' = "returned"
    /\ stream' = NoStream

\* progress_container.markdown("... downloaded ..."); return True
Succeed(kind) ==
    /\ events' = Append(events, Event("Success", kind, <<>>, "none"))
    /\ ret' = "True"
    /\ pc' = "returned"
    /\ stream' = NoStream

\* with yt_dlp.YoutubeDL(opts) as ydl: ydl.download([url])
\* streams: the number of streams the call fetches
StartDownload(label, format, outtmpl, post, streams) ==
    /\ calls' = Append(calls, [op |-> "download", format |-> format,
                               outtmpl |-> outtmpl, post |-> post])
    /\ stream' = [label |-> label, format |-> format, outtmpl |-> outtmpl,
                  pending |-> streams, n |-> 0]

InCall == pc \in {"video_call", "audio_call", "single_call"}

\* the client presses the download button
DownloadVideo(fi, mo) ==
    /\ pc = "idle"
    /\ pc' = "makedirs"
    /\ format_info' = fi
    /\ merge_option' = mo
    /\ UNCHANGED <<dir_state, safe_title, events, calls, stream, files, ret,
                   raised, fmtVars, sanVars>>

\* os.makedirs(output_path, exist_ok=True)
MakeDirs(ok) ==
    /\ pc = "makedirs"
    /\ IF ok
       THEN /\ pc' = "access"
            /\ UNCHANGED <<dir_state, events, ret, stream>>
       ELSE /\ dir_state' = "not_creatable"
            /\ Fail("DirectoryError", <<>>)
    /\ UNCHANGED <<format_info, merge_option, safe_title, calls, files,
                   raised, fmtVars, sanVars>>

\* variant: the write-permission failure is reported but does not return
AccessCheckNoReturn(ok) ==
    /\ pc = "access"
    /\ pc' = "get_info"
    /\ IF ok
       THEN /\ dir_state' = "ok"
            /\ UNCHANGED events
       ELSE /\ dir_state' = "not_writable"
            /\ events' = Append(events, Event("Failure", "DirectoryError",
                                              <<>>, "none"))
    /\ UNCHANGED <<ret, stream, format_info, merge_option, safe_title, calls,
                   files, raised, fmtVars, sanVars>>

\* if not os.access(output_path, os.W_OK)
AccessCheck(ok) ==
    /\ pc = "access"
    /\ IF ok
       THEN /\ pc' = "get_info"
            /\ dir_state' = "ok"
            /\ UNCHANGED <<events, ret, stream>>
       ELSE /\ dir_state' = "not_writable"
            /\ Fail("DirectoryError", <<>>)
    /\ UNCHANGED <<format_info, merge_option, safe_title, calls, files,
                   raised, fmtVars, sanVars>>

\* video_info = get_video_info(url); safe_title = sanitize_filename(title)
GetVideoInfo(info) ==
    /\ pc = "get_info"
    /\ calls' = Append(calls, [op |-> "extract_info", format |-> <<>>,
                               outtmpl |-> <<>>, post |-> FALSE])
    /\ IF info = <<>>
       THEN /\ Fail("MetadataUnavailable", <<>>)
            /\ UNCHANGED safe_title
       ELSE /\ safe_title' = sanitize_filename(info[1])
            /\ pc' = "dispatch"
            /\ UNCHANGED <<events, ret, stream>>
    /\ UNCHANGED <<dir_state, format_info, merge_option, files, raised, fmtVars,
                   sanVars>>

\* if merge_needed and merge_option == "merge": one combined request with
\* the FFmpegVideoConvertor post-processor
DispatchMerge(streams) ==
    /\ pc = "dispatch"
    /\ format_info.merge_needed /\ merge_option = "merge"
    /\ StartDownload("single", <<format_info.format_id, "+bestaudio/best">>,
                     <<safe_title, "_merged.%(ext)s">>, TRUE, streams)
    /\ pc' = "single_call"
    /\ UNCHANGED <<dir_state, format_info, merge_option, safe_title, events,
                   files, ret, raised, fmtVars, sanVars>>

\* elif merge_needed and merge_option == "separate": the video-only call
DispatchSeparate ==
    /\ pc = "dispatch"
    /\ format_info.merge_needed /\ merge_option = "separate"
    /\ events' = Append(events, Event("Progress", "separately", <<>>, "none"))
    /\ StartDownload("video", <<format_info.format_id>>,
                     <<safe_title, "_video.%(ext)s">>, FALSE, 1)
    /\ pc' = "video_call"
    /\ UNCHANGED <<dir_state, format_info, merge_option, safe_title, files,
                   ret, raised, fmtVars, sanVars>>

\* else: download as-is
DispatchPlain ==
    /\ pc = "dispatch"
    /\ ~(format_info.merge_needed /\ merge_option \in {"merge", "separate"})
    /\ StartDownload("single", <<format_info.format_id>>,
                     <<safe_title, ".%(ext)s">>, FALSE, 1)
    /\ pc' = "single_call"
    /\ UNCHANGED <<dir_state, format_info, merge_option, safe_title, events,
                   files, ret, raised, fmtVars, sanVars>>

\* progress_hook, d['status'] == 'downloading'
HookDownloading(known_total) ==
    /\ InCall
    /\ stream.pending > 0
    /\ stream.n < MaxProgress
    /\ events' = Append(events,
                        Event("Downloading",
                              IF known_total THEN "percent" ELSE "unknown",
                              <<>>, stream.label))
    /\ stream' = [stream EXCEPT !.n = @ + 1]
    /\ UNCHANGED <<pc, dir_state, format_info, merge_option, safe_title,
                   calls, files, ret, raised, fmtVars, sanVars>>

\* progress_hook, d['status'] == 'finished'
HookFinished ==
    /\ InCall
    /\ stream.pending > 0
    /\ events' = Append(events,
                        Event("StreamComplete", "", <<>>, stream.label))
    /\ stream' = [stream EXCEPT !.pending = @ - 1, !.n = 0]
    /\ UNCHANGED <<pc, dir_state, format_info, merge_option, safe_title,
                   calls, files, ret, raised, fmtVars, sanVars>>

\* variant: success is reported after the video-only call
VideoDownloadedNoAudio ==
    /\ pc = "video_call"
    /\ stream.pending = 0
    /\ files' = files \cup {stream.outtmpl}
    /\ Succeed("separately")
    /\ UNCHANGED <<dir_state, format_info, merge_option, safe_title, calls,
                   raised, fmtVars, sanVars>>

\* the video-only call returns; the audio call follows
VideoDownloaded ==
    /\ pc = "video_call"
    /\ stream.pending = 0
    /\ files' = files \cup {stream.outtmpl}
    /\ StartDownload("audio", <<"bestaudio">>,
                     <<safe_title, "_audio.%(ext)s">>, FALSE, 1)
    /\ pc' = "audio_call"
    /\ UNCHANGED <<dir_state, format_info, merge_option, safe_title, events,
                   ret, raised, fmtVars, sanVars>>

\* the audio call returns
AudioDownloaded ==
    /\ pc = "audio_call"
    /\ stream.pending = 0
    /\ files' = files \cup {stream.outtmpl}
    /\ Succeed("separately")
    /\ UNCHANGED <<dir_state, format_info, merge_option, safe_title, calls,
                   raised, fmtVars, sanVars>>

\* the merged or as-is call returns
SingleDownloaded ==
    /\ pc = "single_call"
    /\ stream.pending = 0
    /\ files' = files \cup {stream.outtmpl}
    /\ Succeed("completed")
    /\ UNCHANGED <<dir_state, format_info, merge_option, safe_title, calls,
                   raised, fmtVars, sanVars>>

\* variant: the except clause reports the error but does not return
DownloadFailsNoReturn(e) ==
    /\ InCall
    /\ stream.pending > 0
    /\ raised' = e
    /\ events' = Append(events,
                        Event("Failure", ErrorKind(e), e.msg, stream.label))
    /\ stream' = [stream EXCEPT !.pending = 0]
    /\ UNCHANGED <<pc, ret, dir_state, format_info, merge_option, safe_title,
                   calls, files, fmtVars, sanVars>>

\* variant: the except clause removes what the operation has written
DownloadFailsRollback(e) ==
    /\ InCall
    /\ raised' = e
    /\ Fail(ErrorKind(e), e.msg)
    /\ files' = {}
    /\ UNCHANGED <<dir_state, format_info, merge_option, safe_title, calls,
                   fmtVars, sanVars>>

\* the call in flight raises e: except yt_dlp.DownloadError / except Exception
DownloadFails(e) ==
    /\ InCall
    /\ raised' = e
    /\ Fail(ErrorKind(e), e.msg)
    /\ UNCHANGED <<dir_state, format_info, merge_option, safe_title, calls,
                   files, fmtVars, sanVars>>

Init ==
    /\ FmtIdle
    /\ SanIdle
    /\ DlIdle

Next ==
    \/ \E fi \in FormatChoices, mo \in MergeOptions : DownloadVideo(fi, mo)
    \/ \E ok \in BOOLEAN : MakeDirs(ok)
    \/ \E ok \in BOOLEAN : AccessCheck(ok)
    \/ \E info \in InfoResults : GetVideoInfo(info)
    \/ \E streams \in 1..2 : DispatchMerge(streams)
    \/ DispatchSeparate
    \/ DispatchPlain
    \/ \E known_total \in BOOLEAN : HookDownloading(known_total)
    \/ HookFinished
    \/ VideoDownloaded
    \/ AudioDownloaded
    \/ SingleDownloaded
    \/ \E e \in Errors : DownloadFails(e)

Spec == Init /\ [][Next]_vars

\* download_video runs to its return: every step of the function and every
\* external call it waits for completes
FairSpec == Spec /\ WF_vars(Next)

----------------------------------------------------------------------------
(* Claims about download_video (checked under Spec and FairSpec)           *)

\* positions in events of the terminal events
Terminals ==
    { i \in DOMAIN events : events[i].type \in {"Success", "Failure"} }

\* C8: every download_video call emits exactly one terminal event: it
\* reaches its return, at any time at most one Success or Failure has
\* been emitted, one has been emitted exactly when the call has returned,
\* it is the last event, and nothing is emitted after it.
C8_ExactlyOneTerminal ==
    /\ [](/\ Cardinality(Terminals) <= 1
          /\ Terminals # {} => Terminals = {Len(events)}
          /\ (pc = "returned") <=> (Terminals # {})
          /\ (pc = "returned") =>
                ret = (IF events[Len(events)].type = "Success"
                       THEN "True" ELSE "False"))
    /\ [][Terminals # {} => events' = events]_vars
    /\ (pc = "makedirs") ~> (pc = "returned")

\* a call that has returned with a Failure raised by the audio call, after
\* progress and stream events of the video call
C8_Witness ==
    /\ pc = "returned"
    /\ Len(events) >= 4
    /\ events[Len(events)].type = "Failure"
    /\ events[Len(events)].during = "audio"
    /\ \E i \in DOMAIN events : events[i].type = "StreamComplete"
    /\ \E i \in DOMAIN events : events[i].type = "Downloading"

\* C9: when the output directory cannot be created or is not writable,
\* the only event is Failure(DirectoryError), the call has returned, and
\* no yt_dlp call (metadata or download) has been made.
C9_DirectoryError ==
    dir_state \in {"not_creatable", "not_writable"} =>
        /\ events = << Event("Failure", "DirectoryError", <<>>, "none") >>
        /\ calls = <<>>
        /\ pc = "returned"
        /\ ret = "False"
        /\ files = {}

C9_Witness == dir_state = "not_writable" /\ pc = "returned"

\* C10: a keep-separate download of a merge-needed option whose two
\* download calls succeed emits exactly two StreamComplete events, the
\* first during the video call and the second during the audio call, then
\* exactly one Success and no Failure, and writes the two outputs
\* <safe_title>_video.<ext> and <safe_title>_audio.<ext>.
C10_ScenarioD ==
    (/\ pc = "returned"
     /\ dir_state = "ok"
     /\ format_info.merge_needed
     /\ merge_option = "separate"
     /\ ret = "True") =>
        LET IsComplete(e) == e.type = "StreamComplete"
            done == SelectSeq(events, IsComplete)
        IN  /\ Len(done) = 2
            /\ done[1].during = "video"
            /\ done[2].during = "audio"
            /\ events[Len(events)].type = "Success"
            /\ \A i \in 1..(Len(events) - 1) :
                 events[i].type \notin {"Success", "Failure"}
            /\ files = { <<safe_title, "_video.%(ext)s">>,
                         <<safe_title, "_audio.%(ext)s">> }
            /\ Len(calls) = 3
            /\ calls[2].outtmpl = <<safe_title, "_video.%(ext)s">>
            /\ calls[3].outtmpl = <<safe_title, "_audio.%(ext)s">>

\* a successful keep-separate download with progress reported on both
\* streams
C10_Witness ==
    /\ pc = "returned"
    /\ dir_state = "ok"
    /\ format_info.merge_needed
    /\ merge_option = "separate"
    /\ ret = "True"
    /\ \E i \in DOMAIN events :
         events[i].type = "Downloading" /\ events[i].during = "audio"

\* C11 (as claimed): in the keep-separate branch the audio call is issued
\* with the chosen entry's best_audio_id as its format when that id is
\* present, and with the generic 'bestaudio' selector only when it is
\* absent.
C11_AudioSelectorIsPaired ==
    \A i \in DOMAIN calls :
        (/\ calls[i].op = "download"
         /\ calls[i].outtmpl = <<safe_title, "_audio.%(ext)s">>) =>
            calls[i].format =
                (IF format_info.best_audio_id # None
                 THEN <<format_info.best_audio_id>>
                 ELSE <<"bestaudio">>)

\* the audio call of a keep-separate download of an entry that carries a
\* best_audio_id
C11_PairedAudioCallReached ==
    /\ pc = "audio_call"
    /\ format_info.best_audio_id # None

KeepSeparate ==
    /\ pc # "idle"
    /\ format_info.merge_needed
    /\ merge_option = "separate"

\* C13: in a keep-separate operation the audio call is issued only after
\* the video call has returned successfully (its output is written and
\* its call precedes the audio call); when the video call fails no audio
\* call is issued; when the audio call fails the operation returns False
\* with the video output still written; and no step of download_video
\* ever removes an output.
C13_SequentialFailFast ==
    /\ [](KeepSeparate =>
            LET video == <<safe_title, "_video.%(ext)s">>
                audio == <<safe_title, "_audio.%(ext)s">>
                Issued(t) == { i \in DOMAIN calls :
                                 calls[i].op = "download"
                                    /\ calls[i].outtmpl = t }
                failedIn == IF raised = NoError THEN "none"
                            ELSE events[Len(events)].during
            IN  /\ Cardinality(Issued(video)) <= 1
                /\ Cardinality(Issued(audio)) <= 1
                /\ Issued(audio) # {} =>
                     /\ video \in files
                     /\ \A a \in Issued(audio) : \E v \in Issued(video) : v < a
                     /\ failedIn # "video"
                /\ pc = "video_call" => Issued(audio) = {}
                /\ failedIn = "video" =>
                     Issued(audio) = {} /\ ret = "False" /\ pc = "returned"
                /\ failedIn = "audio" =>
                     /\ ret = "False" /\ pc = "returned"
                     /\ video \in files
                     /\ audio \notin files)
    /\ [][files \subseteq files']_vars

\* a keep-separate operation whose audio call failed after the video
\* output was written
C13_Witness ==
    /\ KeepSeparate
    /\ raised # NoError
    /\ events[Len(events)].during = "audio"
    /\ <<safe_title, "_video.%(ext)s">> \in files

\* C14 (as claimed): a download of a merge-needed entry reports Success
\* only after audio has been requested, by the combined request with the
\* post-processor writing <safe_title>_merged or by a separate audio
\* call after the video call; a lone download of the video-only format
\* to <safe_title>.<ext> never ends in Success.
C14_SuccessRequestsAudio ==
    (/\ pc = "returned"
     /\ format_info.merge_needed
     /\ ret = "True") =>
        /\ \/ \E i \in DOMAIN calls :
                /\ calls[i].op = "download"
                /\ calls[i].format = <<format_info.format_id, "+bestaudio/best">>
                /\ calls[i].outtmpl = <<safe_title, "_merged.%(ext)s">>
                /\ calls[i].post
           \/ \E i, j \in DOMAIN calls :
                /\ i < j
                /\ calls[i].outtmpl = <<safe_title, "_video.%(ext)s">>
                /\ calls[j].outtmpl = <<safe_title, "_audio.%(ext)s">>
        /\ \A i \in DOMAIN calls :
             calls[i].outtmpl # <<safe_title, ".%(ext)s">>

\* a merge-needed entry downloaded with merge_option "auto"
C14_AutoReached ==
    /\ pc = "returned"
    /\ format_info.merge_needed
    /\ merge_option = "auto"
    /\ ret = "True"

====
